---- MODULE Spec2Model ----
(***************************************************************************)
(* Model of bioconda_utils/linting.py: the lint() pass (skip resolution,   *)
(* per-recipe loading, check execution, report aggregation) and the        *)
(* report/sentinel distinction consumed by markdown_report().              *)
(*                                                                         *)
(* Text is modelled as sequences of one-character strings, so that the     *)
(* commit-message regular expression and the lexicographic sort of the     *)
(* recipe identifiers are computed, not assumed.                           *)
(***************************************************************************)
EXTENDS Integers, Sequences, FiniteSets, TLC

VARIABLES
    recipes,        \* lint() argument: list of recipe identifiers (texts)
    exclude,        \* lint_args.exclude: None or a list of check names (texts)
    lint_skip,      \* os.environ.get('LINT_SKIP'): None or a text
    commit_message, \* local commit_message
    skip_dict,      \* local skip_dict: recipe text -> list of check names
    order,          \* sorted(recipes), the list the for loop iterates
    idx,            \* position of the for loop in order (1-based)
    recipe_obj,     \* local recipe_obj: None or the handle of a recipe
    platform,       \* position of `for platform in ["linux", "osx"]` (1-based)
    metas,          \* local metas: list of metadata variants
    skip_for_this_recipe, \* local set skip_for_this_recipe
    persistent,     \* local persistent: unbound (None) or the last skip-lints read
    fidx,           \* position of the inner loop in registry (1-based)
    hits,           \* local hits: the diagnostic sequence
    result,         \* what lint() returned (or that it raised)
    pc,             \* position of the pass inside lint()
    calls           \* observation: the calls lint() made to its collaborators
                    \* (git, Recipe.from_file, load_all_meta, the checks), in
                    \* order, each with what it returned or that it raised

vars == <<recipes, exclude, lint_skip, commit_message, skip_dict, order, idx,
          recipe_obj, platform, metas, skip_for_this_recipe, persistent, fidx, hits,
          result, pc, calls>>

----------------------------------------------------------------------------
(* Bounds of the model.                                                     *)

\* Longest recipe list handed to lint().
MaxRecipes == 2

----------------------------------------------------------------------------
(* Text: characters, their order, and the texts the model uses.             *)

\* An optional value (None, an unset environment variable, an unbound
\* local) is the empty sequence; a present value x is <<x>>.
NoneVal == <<>>
Some(x) == <<x>>

\* Code points of the characters that occur, for str comparison (sorted()).
Ord(ch) ==
    CASE ch = "\n" -> 10
      [] ch = " " -> 32
      [] ch = "[" -> 91
      [] ch = "]" -> 93
      [] ch = "_" -> 95
      [] ch = "a" -> 97
      [] ch = "b" -> 98
      [] ch = "f" -> 102
      [] ch = "i" -> 105
      [] ch = "k" -> 107
      [] ch = "l" -> 108
      [] ch = "n" -> 110
      [] ch = "o" -> 111
      [] ch = "p" -> 112
      [] ch = "q" -> 113
      [] ch = "r" -> 114
      [] ch = "s" -> 115
      [] ch = "t" -> 116
      [] ch = "x" -> 120

\* \s of the pattern
IsSpace(ch) == ch \in {" ", "\n"}

\* \w of the pattern
IsWord(ch) == ch \in {"_", "a", "b", "f", "i", "k", "l", "n", "o", "p", "q",
                      "r", "s", "t", "x"}

\* . of the pattern (no DOTALL flag): anything but a newline
IsDot(ch) == ch # "\n"

\* The literal 'lint skip ' of the pattern.
LintSkipLit == <<"l", "i", "n", "t", " ", "s", "k", "i", "p", " ">>

\* The literal ' for ' of the pattern.
ForLit == <<" ", "f", "o", "r", " ">>

\* s[i..j] as a sequence (empty when j < i)
Slice(s, i, j) == IF j < i THEN <<>> ELSE SubSeq(s, i, j)

\* whether literal lit occurs in s at position i
HasLitAt(s, i, lit) ==
    /\ i >= 1
    /\ i + Len(lit) - 1 <= Len(s)
    /\ SubSeq(s, i, i + Len(lit) - 1) = lit

\* str comparison a < b: lexicographic by code point, a proper prefix first
RECURSIVE StrLess(_, _)
StrLess(a, b) ==
    IF b = <<>> THEN FALSE
    ELSE IF a = <<>> THEN TRUE
    ELSE IF Head(a) = Head(b) THEN StrLess(Tail(a), Tail(b))
    ELSE Ord(Head(a)) < Ord(Head(b))

----------------------------------------------------------------------------
(* skip_re = r'\[\s*lint skip (?P<func>\w+) for (?P<recipe>.*?)\s*\]'      *)
(* and skip_re.findall(commit_message).                                     *)

\* first position >= i of s that holds no whitespace (Len(s)+1 if none): \s*
RECURSIVE SkipSpaces(_, _)
SkipSpaces(s, i) ==
    IF i <= Len(s) /\ IsSpace(s[i]) THEN SkipSpaces(s, i + 1) ELSE i

\* first position >= i of s that holds no word character: the end of \w*
RECURSIVE WordEnd(_, _)
WordEnd(s, i) ==
    IF i <= Len(s) /\ IsWord(s[i]) THEN WordEnd(s, i + 1) ELSE i

\* whether \s*\] matches at position n of s
ClosesAt(s, n) ==
    LET c == SkipSpaces(s, n) IN c <= Len(s) /\ s[c] = "]"

\* (.*?) from position n on: the first n at which \s*\] matches, every
\* character passed over matching '.', or 0 when there is none
RECURSIVE LazyEnd(_, _)
LazyEnd(s, n) ==
    IF ClosesAt(s, n) THEN n
    ELSE IF n <= Len(s) /\ IsDot(s[n]) THEN LazyEnd(s, n + 1)
    ELSE 0

\* skip_re.match(s, i): the groups and the position after the match
MatchAt(s, i) ==
    LET j == SkipSpaces(s, i + 1)
        k == j + Len(LintSkipLit)
        e == WordEnd(s, k)
        m == e + Len(ForLit)
        n == LazyEnd(s, m)
        fail == [ok |-> FALSE, func |-> <<>>, recipe |-> <<>>, next |-> i + 1]
    IN  IF ~(i <= Len(s) /\ s[i] = "[") THEN fail
        ELSE IF ~HasLitAt(s, j, LintSkipLit) THEN fail
        ELSE IF ~(e > k) THEN fail
        ELSE IF ~HasLitAt(s, e, ForLit) THEN fail
        ELSE IF n = 0 THEN fail
        ELSE [ok |-> TRUE,
              func |-> Slice(s, k, e - 1),
              recipe |-> Slice(s, m, n - 1),
              next |-> SkipSpaces(s, n) + 1]

\* skip_re.findall(s) scanning from position i: the (func, recipe) pairs of
\* the non-overlapping matches, left to right
RECURSIVE FindAllFrom(_, _)
FindAllFrom(s, i) ==
    IF i > Len(s) THEN <<>>
    ELSE LET m == MatchAt(s, i)
         IN  IF m.ok THEN <<<<m.func, m.recipe>>>> \o FindAllFrom(s, m.next)
             ELSE FindAllFrom(s, i + 1)

FindAll(s) == FindAllFrom(s, 1)

\* list(itertools.product(xs, ys)): pairs, the first component varying slowest
RECURSIVE Product(_, _)
Product(xs, ys) ==
    IF xs = <<>> THEN <<>>
    ELSE [i \in 1..Len(ys) |-> <<Head(xs), ys[i]>>] \o Product(Tail(xs), ys)

\* skip_dict[key] of a defaultdict(list), read without storing
DictGet(d, key) == IF key \in DOMAIN d THEN d[key] ELSE <<>>

\* for func, recipe in to_skip: skip_dict[recipe].append(func)
RECURSIVE BuildSkipDict(_, _)
BuildSkipDict(d, pairs) ==
    IF pairs = <<>> THEN d
    ELSE LET func == Head(pairs)[1]
             key  == Head(pairs)[2]
             d2   == [x \in DOMAIN d \cup {key} |->
                         IF x = key THEN Append(DictGet(d, key), func)
                         ELSE d[x]]
         IN  BuildSkipDict(d2, Tail(pairs))

\* set(xs) of a list
ToSet(xs) == {xs[i] : i \in DOMAIN xs}

----------------------------------------------------------------------------
(* sorted(recipes)                                                          *)

\* xs (sorted) with x inserted after every element not greater than it
RECURSIVE Insert(_, _)
Insert(xs, x) ==
    IF xs = <<>> THEN <<x>>
    ELSE IF StrLess(x, Head(xs)) THEN <<x>> \o xs
    ELSE <<Head(xs)>> \o Insert(Tail(xs), x)

RECURSIVE SortFrom(_, _)
SortFrom(acc, xs) ==
    IF xs = <<>> THEN acc ELSE SortFrom(Insert(acc, Head(xs)), Tail(xs))

\* Sorted without sorting: the loop iterates the list as it was given
AsGiven(xs) == xs

\* sorted(xs): ascending, stable
Sorted(xs) == SortFrom(<<>>, xs)

----------------------------------------------------------------------------
(* The inputs of a pass.                                                    *)

\* The registered check functions, by __name__, in registration order.
Registry == <<"b", "ab">>

\* func.__name__ as text
Text(name) ==
    CASE name = "b" -> <<"b">>
      [] name = "ab" -> <<"a", "b">>

\* Recipe identifiers (relative paths) a pass may be handed.
RecipeIds == {<<"p">>, <<"p", "q">>, <<"q">>}

\* Lists of n distinct elements of S
RECURSIVE DistinctLists(_, _)
DistinctLists(S, n) ==
    IF n = 0 THEN {<<>>}
    ELSE {Append(l, x) : <<l, x>> \in
             {lx \in DistinctLists(S, n - 1) \X S : lx[2] \notin ToSet(lx[1])}}

\* The recipe lists select_recipes may hand to lint(): distinct paths.
RecipeLists == UNION {DistinctLists(RecipeIds, n) : n \in 0..MaxRecipes}

\* '[lint skip <func> for <recipe>]'
Directive(func, recipe) ==
    <<"[">> \o LintSkipLit \o func \o ForLit \o recipe \o <<"]">>

\* '[ lint skip <func> for <recipe> ]', the form of the comment at 179-182
SpacedDirective(func, recipe) ==
    <<"[", " ">> \o LintSkipLit \o func \o ForLit \o recipe \o <<" ", "]">>

\* Commit messages of a pass: an empty one, one tight directive, and a text
\* with a padded directive, a tight one, and a malformed one ('forq').
Messages ==
    { <<>>,
      Directive(Text("b"), <<"p">>),
      <<"x", "\n">> \o SpacedDirective(Text("ab"), <<"p", "q">>)
          \o <<"\n">> \o Directive(Text("b"), <<"p", "q">>)
          \o <<"[">> \o LintSkipLit \o Text("b") \o <<" ", "f", "o", "r">>
          \o <<"q", "]">> }

\* Values of lint_args.exclude.
Excludes == {NoneVal, Some(<<Text("ab")>>)}

\* Values of os.environ.get('LINT_SKIP').
LintSkipValues == {NoneVal, Some(Directive(Text("ab"), <<"q">>))}

\* Values of meta.get_value('extra/skip-lints', []) of a variant, by
\* platform: a linux variant lists check b; an osx variant lists it or
\* lists nothing.
SkipLintsValues(plat) ==
    IF plat = "linux" THEN {<<Text("b")>>} ELSE {<<>>, <<Text("b")>>}

\* The variant lists load_all_meta may return for a platform: no variant,
\* or one variant.
VariantLists(plat) ==
    {<<>>} \cup {<<[platform |-> plat, skip_lints |-> sl]>> :
                    sl \in SkipLintsValues(plat)}

\* The non-empty payload a check returns when it has a finding.
Finding(name) ==
    CASE name = "b" -> << <<"fix", "f">>, <<"msg", "y">> >>
      [] name = "ab" -> << <<"msg", "x">> >>

\* What a check may return: nothing (None or an empty dict) or its finding.
CheckReturns(name) == {<<>>, Finding(name)}

\* getattr(exc, 'line', None) of a RecipeError
ErrorLines == {NoneVal, Some("7")}

----------------------------------------------------------------------------
(* Diagnostics and the report.                                              *)

\* A dict of hits; check diagnostics carry no 'severity' key ("default").
Diagnostic(recipe, check, severity, info) ==
    [recipe |-> recipe, check |-> check, severity |-> severity, info |-> info]

\* result of the except RecipeError branch
LoadRecipeInfo(line) ==
    << <<"load_recipe", "E">>, <<"fix", "E">> >> \o
    (IF line = NoneVal THEN <<>>
     ELSE << <<"start_line", line[1]>>, <<"end_line", line[1]>> >>)

\* info of the except (ScannerError, ConstructorError, SystemExit) branch
ParseErrorInfo ==
    << <<"parse_error", "E">>, <<"fix", "E">>, <<"_exc", "T">>,
       <<"test1", "c">>, <<"test2", "a">> >>

\* the keys of a payload, in insertion order
Keys(info) == [i \in DOMAIN info |-> info[i][1]]

\* AddNew without the membership test: a key seen again gets a new column
AddNewAlways(ks, more) == ks \o more

\* ks followed by the elements of more that are not yet in it
RECURSIVE AddNew(_, _)
AddNew(ks, more) ==
    IF more = <<>> THEN ks
    ELSE AddNew(IF Head(more) \in ToSet(ks) THEN ks ELSE Append(ks, Head(more)),
                Tail(more))

\* the columns of pd.DataFrame(list of dicts): every key, first seen first
RECURSIVE UnionKeys(_)
UnionKeys(infos) ==
    IF infos = <<>> THEN <<>>
    ELSE AddNew(Keys(Head(infos)),
                UnionKeys(Tail(infos)))

\* a cell of the widened frame: the payload's value for key, NaN if absent
Cell(info, key) ==
    IF \E i \in DOMAIN info : info[i][1] = key
    THEN info[CHOOSE i \in DOMAIN info : info[i][1] = key][2]
    ELSE "NaN"

\* the columns that precede the payload keys
FixedColumns == <<"recipe", "check", "info">>

\* pd.concat((pd.DataFrame(hits)[['recipe','check','info']],
\*            pd.DataFrame(list(report['info'].values))), axis=1)
BuildReport(hs) ==
    LET keys == UnionKeys([i \in DOMAIN hs |-> hs[i].info])
    IN  [kind    |-> "DataFrame",
         columns |-> FixedColumns \o keys,
         rows    |-> [i \in DOMAIN hs |->
                        <<hs[i].recipe, hs[i].check, hs[i].info>> \o
                        [k \in DOMAIN keys |-> Cell(hs[i].info, keys[k])]]]

\* return without a value
NoneResult == [kind |-> "None", columns |-> <<>>, rows |-> <<>>]

\* lint() has not returned yet
Pending == [kind |-> "pending", columns |-> <<>>, rows |-> <<>>]

\* lint() was left by an exception
Raised == [kind |-> "raised", columns |-> <<>>, rows |-> <<>>]

\* Report without the `if hits:` test: a frame is built even from no hits
ReportAlwaysFrame(hs) == BuildReport(hs)

\* `if hits:` ... `else: return`
Report(hs) == IF hs # <<>> THEN BuildReport(hs) ELSE NoneResult

\* `if result:` of a check's return value
Truthy(payload) == payload # <<>>

\* markdown_report: which template it renders
Template(report) ==
    IF report.kind = "None" THEN "lint_success.md" ELSE "lint_failure.md"

----------------------------------------------------------------------------
(* lint()                                                                   *)

\* Platforms with the alternate platform left out
PlatformsLinuxOnly == <<"linux">>

\* for platform in ["linux", "osx"]
Platforms == <<"linux", "osx">>

\* to_skip: the commit directives, then exclude x recipes
ToSkip(message, excl, rs) ==
    FindAll(message) \o (IF excl # NoneVal THEN Product(excl[1], rs) ELSE <<>>)

\* SkipSet without lines 241-243: the persisted skip-lints are ignored
SkipSetCommitOnly(d, recipe, ms) == ToSet(DictGet(d, recipe))

\* skip_for_this_recipe: set(skip_dict[recipe]) updated with the
\* extra/skip-lints of every meta of metas
SkipSet(d, recipe, ms) ==
    ToSet(DictGet(d, recipe)) \cup
    UNION {ToSet(ms[i].skip_lints) : i \in DOMAIN ms}

\* `persistent` after `for meta in metas: persistent = ...`: the value read
\* from the last meta; the loop body never runs for an empty list
PersistentAfter(old, ms) ==
    IF ms = <<>> THEN old ELSE Some(ms[Len(ms)].skip_lints)

\* func.__name__ in skip_for_this_recipe
IsSkipped(name, skips) == Text(name) \in skips

\* the recipe the outer loop is at
Recipe == order[idx]

\* the check the inner loop is at
Func == Registry[fidx]

\* a call of the log: fn is "git", "from_file", "load_all_meta" or "check";
\* arg the platform or the check's name; ok whether it returned; out what it
\* returned; handle and ms the arguments a check was given
Call(fn, recipe, arg, ok, out, handle, ms) ==
    [fn |-> fn, recipe |-> recipe, arg |-> arg, ok |-> ok, out |-> out,
     handle |-> handle, ms |-> ms]

\* Raise with the exception caught around the pass: the report of the
\* diagnostics collected so far is returned
RaiseSwallowed ==
    /\ pc' = "done"
    /\ result' = Report(hits)

\* an exception leaves lint(): nothing is returned
Raise ==
    /\ pc' = "raised"
    /\ result' = Raised

\* FailRecipe without its `continue`: the diagnostic is appended and the
\* loop body goes on to the skips and checks of the same recipe
FailRecipeFallThrough(check, info) ==
    /\ hits' = Append(hits, Diagnostic(Recipe, check, "ERROR", info))
    /\ idx' = idx
    /\ pc' = "skips"

\* `continue` of the outer loop after a recipe-scoped failure: the
\* diagnostic is appended and the loop goes to the next recipe
FailRecipe(check, info) ==
    /\ hits' = Append(hits, Diagnostic(Recipe, check, "ERROR", info))
    /\ idx' = idx + 1
    /\ pc' = "recipe"

Init ==
    /\ recipes \in RecipeLists
    /\ exclude \in Excludes
    /\ lint_skip \in LintSkipValues
    /\ commit_message = <<>>
    /\ skip_dict = <<>>
    /\ order = <<>>
    /\ idx = 1
    /\ recipe_obj = NoneVal
    /\ platform = 1
    /\ metas = <<>>
    /\ skip_for_this_recipe = {}
    /\ persistent = NoneVal
    /\ fidx = 1
    /\ hits = <<>>
    /\ result = Pending
    /\ pc = "start"
    /\ calls = <<>>

\* 170-172: LINT_SKIP overrides the commit message
UseLintSkip ==
    /\ pc = "start"
    /\ lint_skip # NoneVal
    /\ commit_message' = lint_skip[1]
    /\ pc' = "parse"
    /\ UNCHANGED <<recipes, exclude, lint_skip, skip_dict, order, idx,
                   recipe_obj, platform, metas, skip_for_this_recipe,
                   persistent, fidx, hits, result, calls>>

\* 173-177: git log returns the message of the last commit
GitLog ==
    /\ pc = "start"
    /\ lint_skip = NoneVal
    /\ \E m \in Messages :
          /\ commit_message' = m
          /\ calls' = Append(calls, Call("git", <<>>, "log", TRUE, m,
                                         NoneVal, <<>>))
    /\ pc' = "parse"
    /\ UNCHANGED <<recipes, exclude, lint_skip, skip_dict, order, idx,
                   recipe_obj, platform, metas, skip_for_this_recipe,
                   persistent, fidx, hits, result>>

\* 173-177: utils.run raises (git fails); nothing catches it
GitLogFails ==
    /\ pc = "start"
    /\ lint_skip = NoneVal
    /\ calls' = Append(calls, Call("git", <<>>, "log", FALSE, <<>>,
                                   NoneVal, <<>>))
    /\ Raise
    /\ UNCHANGED <<recipes, exclude, lint_skip, commit_message, skip_dict,
                   order, idx, recipe_obj, platform, metas,
                   skip_for_this_recipe, persistent, fidx, hits>>

\* 184-196: build skip_dict, empty hits, sort the recipes
ParseSkips ==
    /\ pc = "parse"
    /\ skip_dict' = BuildSkipDict(<<>>, ToSkip(commit_message, exclude, recipes))
    /\ hits' = <<>>
    /\ order' = Sorted(recipes)
    /\ idx' = 1
    /\ pc' = "recipe"
    /\ UNCHANGED <<recipes, exclude, lint_skip, commit_message, recipe_obj,
                   platform, metas, skip_for_this_recipe, persistent, fidx,
                   result, calls>>

\* 199-200, 220: Recipe.from_file returns the handle
FromFile ==
    /\ pc = "recipe"
    /\ idx <= Len(order)
    /\ calls' = Append(calls, Call("from_file", Recipe, "", TRUE, <<>>,
                                   NoneVal, <<>>))
    /\ recipe_obj' = Some([path |-> Recipe])
    /\ metas' = <<>>
    /\ platform' = 1
    /\ pc' = "load"
    /\ UNCHANGED <<recipes, exclude, lint_skip, commit_message, skip_dict,
                   order, idx, skip_for_this_recipe, persistent, fidx, hits,
                   result>>

\* 201-212: Recipe.from_file raises RecipeError
FromFileFails ==
    /\ pc = "recipe"
    /\ idx <= Len(order)
    /\ calls' = Append(calls, Call("from_file", Recipe, "", FALSE, <<>>,
                                   NoneVal, <<>>))
    /\ \E line \in ErrorLines : FailRecipe("load_recipe", LoadRecipeInfo(line))
    /\ UNCHANGED <<recipes, exclude, lint_skip, commit_message, skip_dict,
                   order, recipe_obj, platform, metas, skip_for_this_recipe,
                   persistent, fidx, result>>

\* 222-224: load_all_meta returns the variants of one platform
LoadMeta ==
    /\ pc = "load"
    /\ \E vs \in VariantLists(Platforms[platform]) :
          /\ metas' = metas \o vs
          /\ calls' = Append(calls, Call("load_all_meta", Recipe,
                                         Platforms[platform], TRUE, vs,
                                         NoneVal, <<>>))
    /\ IF platform < Len(Platforms)
       THEN platform' = platform + 1 /\ pc' = pc
       ELSE platform' = platform /\ pc' = "skips"
    /\ UNCHANGED <<recipes, exclude, lint_skip, commit_message, skip_dict,
                   order, idx, recipe_obj, skip_for_this_recipe, persistent,
                   fidx, hits, result>>

\* 225-235: load_all_meta raises one of the caught parse errors
LoadMetaFails ==
    /\ pc = "load"
    /\ calls' = Append(calls, Call("load_all_meta", Recipe,
                                   Platforms[platform], FALSE, <<>>,
                                   NoneVal, <<>>))
    /\ FailRecipe("parse_error", ParseErrorInfo)
    /\ UNCHANGED <<recipes, exclude, lint_skip, commit_message, skip_dict,
                   order, recipe_obj, platform, metas, skip_for_this_recipe,
                   persistent, fidx, result>>

\* 237-243: the skips of this recipe; reading skip_dict[recipe] stores the
\* default of the defaultdict
ResolveSkips ==
    /\ pc = "skips"
    /\ skip_for_this_recipe' = SkipSet(skip_dict, Recipe, metas)
    /\ skip_dict' = [x \in DOMAIN skip_dict \cup {Recipe} |->
                        DictGet(skip_dict, x)]
    /\ persistent' = PersistentAfter(persistent, metas)
    /\ fidx' = 1
    /\ pc' = "checks"
    /\ UNCHANGED <<recipes, exclude, lint_skip, commit_message, order, idx,
                   recipe_obj, platform, metas, hits, result, calls>>

\* 246-256: a skipped check is logged and passed over
SkipCheck ==
    /\ pc = "checks"
    /\ fidx <= Len(Registry)
    /\ IsSkipped(Func, skip_for_this_recipe)
    /\ persistent # NoneVal
    /\ fidx' = fidx + 1
    /\ UNCHANGED <<recipes, exclude, lint_skip, commit_message, skip_dict,
                   order, idx, recipe_obj, platform, metas,
                   skip_for_this_recipe, persistent, hits, result, pc,
                   calls>>

\* 246-250: building skip_sources reads `persistent`, which no meta of this
\* or an earlier recipe has bound: UnboundLocalError
SkipCheckUnbound ==
    /\ pc = "checks"
    /\ fidx <= Len(Registry)
    /\ IsSkipped(Func, skip_for_this_recipe)
    /\ persistent = NoneVal
    /\ Raise
    /\ UNCHANGED <<recipes, exclude, lint_skip, commit_message, skip_dict,
                   order, idx, recipe_obj, platform, metas,
                   skip_for_this_recipe, persistent, fidx, hits, calls>>

\* 257-262: a check that is not skipped runs and returns
RunCheck ==
    /\ pc = "checks"
    /\ fidx <= Len(Registry)
    /\ ~IsSkipped(Func, skip_for_this_recipe)
    /\ \E out \in CheckReturns(Func) :
          /\ calls' = Append(calls, Call("check", Recipe, Func, TRUE, out,
                                         recipe_obj, metas))
          /\ hits' = IF Truthy(out)
                     THEN Append(hits, Diagnostic(Recipe, Func, "default", out))
                     ELSE hits
    /\ fidx' = fidx + 1
    /\ UNCHANGED <<recipes, exclude, lint_skip, commit_message, skip_dict,
                   order, idx, recipe_obj, platform, metas,
                   skip_for_this_recipe, persistent, result, pc>>

\* 257: a check that is not skipped raises; nothing catches it
CheckRaises ==
    /\ pc = "checks"
    /\ fidx <= Len(Registry)
    /\ ~IsSkipped(Func, skip_for_this_recipe)
    /\ calls' = Append(calls, Call("check", Recipe, Func, FALSE, <<>>,
                                   recipe_obj, metas))
    /\ Raise
    /\ UNCHANGED <<recipes, exclude, lint_skip, commit_message, skip_dict,
                   order, idx, recipe_obj, platform, metas,
                   skip_for_this_recipe, persistent, fidx, hits>>

\* 245: the registry is exhausted; the outer loop moves on
EndChecks ==
    /\ pc = "checks"
    /\ fidx > Len(Registry)
    /\ idx' = idx + 1
    /\ pc' = "recipe"
    /\ UNCHANGED <<recipes, exclude, lint_skip, commit_message, skip_dict,
                   order, recipe_obj, platform, metas, skip_for_this_recipe,
                   persistent, fidx, hits, result, calls>>

\* 264-272: every recipe is done; the report or None is returned
Return ==
    /\ pc = "recipe"
    /\ idx > Len(order)
    /\ result' = Report(hits)
    /\ pc' = "done"
    /\ UNCHANGED <<recipes, exclude, lint_skip, commit_message, skip_dict,
                   order, idx, recipe_obj, platform, metas,
                   skip_for_this_recipe, persistent, fidx, hits, calls>>

Next ==
    \/ UseLintSkip
    \/ GitLog
    \/ GitLogFails
    \/ ParseSkips
    \/ FromFile
    \/ FromFileFails
    \/ LoadMeta
    \/ LoadMetaFails
    \/ ResolveSkips
    \/ SkipCheck
    \/ SkipCheckUnbound
    \/ RunCheck
    \/ CheckRaises
    \/ EndChecks
    \/ Return

Spec == Init /\ [][Next]_vars

----------------------------------------------------------------------------
(* Vocabulary of the properties.                                            *)

\* the names of the registered checks
RegSet == ToSet(Registry)

\* whether text sub occurs in text s
Contains(s, sub) ==
    \E i \in 1..(Len(s) - Len(sub) + 1) : SubSeq(s, i, i + Len(sub) - 1) = sub

\* positions of the diagnostics of recipe r
HitIdx(r) == {i \in DOMAIN hits : hits[i].recipe = r}

\* positions of the diagnostics of recipe r named c
HitIdxOf(r, c) == {i \in HitIdx(r) : hits[i].check = c}

\* positions in the log of the calls of fn for recipe r
CallIdx(fn, r) == {i \in DOMAIN calls : calls[i].fn = fn /\ calls[i].recipe = r}

\* positions in the log of the invocations of check c for recipe r
CheckIdx(r, c) == {i \in CallIdx("check", r) : calls[i].arg = c}

\* c is in the global exclude list
InGlobalExclude(c) == exclude # NoneVal /\ Text(c) \in ToSet(exclude[1])

\* the commit message (or the LINT_SKIP override) that was read holds a
\* directive '[lint skip c for r]', tight or padded with blanks
CommitNames(c, r) ==
    /\ pc # "start"
    /\ \/ Contains(commit_message, Directive(Text(c), r))
       \/ Contains(commit_message, SpacedDirective(Text(c), r))

\* c is listed in extra/skip-lints of a variant load_all_meta returned for r
PersistedNames(c, r) ==
    \E i \in CallIdx("load_all_meta", r) :
        /\ calls[i].ok
        /\ \E j \in DOMAIN calls[i].out :
              Text(c) \in ToSet(calls[i].out[j].skip_lints)

\* c is in the effective skip set of r
EffectivelySkipped(c, r) ==
    InGlobalExclude(c) \/ CommitNames(c, r) \/ PersistedNames(c, r)

----------------------------------------------------------------------------
(* C1. Skip completeness: a check that is globally excluded, or named for   *)
(* recipe r by a directive of the commit message (or of LINT_SKIP), or      *)
(* listed in extra/skip-lints of any variant loaded for r, has no           *)
(* diagnostic for r in the diagnostic sequence.                             *)
C1_SkipCompleteness ==
    \A r \in ToSet(recipes) : \A c \in RegSet :
        HitIdxOf(r, c) = {} \/ ~EffectivelySkipped(c, r)

\* a finished pass in which a check was skipped for a recipe by its persisted
\* skip-lints alone while another check of that recipe produced a diagnostic,
\* and a check was skipped for a recipe by a commit directive alone
C1_Witness ==
    /\ pc = "done"
    /\ \E r \in ToSet(recipes) : \E c \in RegSet :
          /\ PersistedNames(c, r)
          /\ ~InGlobalExclude(c) /\ ~CommitNames(c, r)
          /\ \E d \in RegSet \ {c} : HitIdxOf(r, d) # {}
    /\ \E r \in ToSet(recipes) : \E c \in RegSet :
          /\ CommitNames(c, r)
          /\ ~InGlobalExclude(c) /\ ~PersistedNames(c, r)
          /\ CallIdx("check", r) # {}

----------------------------------------------------------------------------
\* recipe r has exactly one diagnostic, an ERROR named check, and no check
\* was invoked for it
OnlyDiagnostic(r, check) ==
    /\ Cardinality(HitIdx(r)) = 1
    /\ \A i \in HitIdx(r) : hits[i].check = check /\ hits[i].severity = "ERROR"
    /\ CallIdx("check", r) = {}

(* C2. Short-circuit: a recipe whose Recipe.from_file raised RecipeError    *)
(* has exactly one diagnostic, named load_recipe with severity ERROR, and   *)
(* no check was invoked for it; a recipe whose metadata loading failed on a *)
(* platform has exactly one diagnostic, named parse_error with severity     *)
(* ERROR, and no check was invoked for it.                                  *)
C2_ShortCircuit ==
    \A i \in DOMAIN calls :
        /\ (calls[i].fn = "from_file" /\ ~calls[i].ok)
              => OnlyDiagnostic(calls[i].recipe, "load_recipe")
        /\ (calls[i].fn = "load_all_meta" /\ ~calls[i].ok)
              => OnlyDiagnostic(calls[i].recipe, "parse_error")

\* a finished pass with one recipe that failed to load and another whose
\* osx metadata failed to parse after its linux metadata had loaded
C2_Witness ==
    /\ pc = "done"
    /\ \E i \in DOMAIN calls : calls[i].fn = "from_file" /\ ~calls[i].ok
    /\ \E i \in DOMAIN calls :
          calls[i].fn = "load_all_meta" /\ ~calls[i].ok /\ calls[i].arg = "osx"

----------------------------------------------------------------------------
\* git returned (if it was called) and no invoked check raised
NoPassScopedFailure ==
    \A i \in DOMAIN calls : calls[i].fn \in {"git", "check"} => calls[i].ok

(* C3. Failure containment: a load or parse failure never aborts the pass;  *)
(* provided the commit message was obtained and no check raised, lint() is  *)
(* not left by an exception, and when it has returned every recipe of the   *)
(* list was taken through the loop and a result (report or None) exists.    *)
C3_FailureContainment ==
    NoPassScopedFailure =>
        /\ pc # "raised"
        /\ pc = "done" =>
              /\ idx = Len(recipes) + 1
              /\ \A r \in ToSet(recipes) : CallIdx("from_file", r) # {}
              /\ result.kind \in {"None", "DataFrame"}

----------------------------------------------------------------------------
\* every call returned and every invoked check returned a falsy payload
NoFindings ==
    \A i \in DOMAIN calls :
        /\ calls[i].ok
        /\ calls[i].fn = "check" => calls[i].out = <<>>

(* C4. Clean-pass distinction: lint() returns None exactly when no          *)
(* diagnostic was produced, that is when every recipe loaded and parsed and *)
(* no invoked check returned a non-empty payload; with at least one         *)
(* diagnostic it returns a frame with at least one row; markdown_report     *)
(* renders the success template exactly for None.                           *)
C4_CleanPass ==
    pc = "done" =>
        /\ (result.kind = "None") <=> (hits = <<>>)
        /\ (hits = <<>>) <=> NoFindings
        /\ hits # <<>> => (result.kind = "DataFrame" /\ Len(result.rows) >= 1)
        /\ (Template(result) = "lint_success.md") <=> (hits = <<>>)

\* a clean pass over a non-empty list in which a check ran and returned
\* nothing
C4_Witness ==
    /\ pc = "done"
    /\ result.kind = "None"
    /\ recipes # <<>>
    /\ \E i \in DOMAIN calls : calls[i].fn = "check"

----------------------------------------------------------------------------
(* C5. Column union.                                                        *)

\* every payload key of the diagnostic sequence
AllKeys == UNION {ToSet(Keys(hits[i].info)) : i \in DOMAIN hits}

\* the first diagnostic whose payload has key k
FirstHit(k) ==
    CHOOSE i \in DOMAIN hits :
        /\ k \in ToSet(Keys(hits[i].info))
        /\ \A j \in 1..(i - 1) : k \notin ToSet(Keys(hits[j].info))

\* the position of key k in the payload that has it
PosIn(k, info) == CHOOSE j \in DOMAIN info : info[j][1] = k

\* key a was seen before key b
SeenBefore(a, b) ==
    \/ FirstHit(a) < FirstHit(b)
    \/ /\ FirstHit(a) = FirstHit(b)
       /\ PosIn(a, hits[FirstHit(a)].info) < PosIn(b, hits[FirstHit(a)].info)

\* ks holds every payload key once, in first-seen order
IsFirstSeenKeys(ks) ==
    /\ ToSet(ks) = AllKeys
    /\ \A a, b \in DOMAIN ks : a < b => SeenBefore(ks[a], ks[b])

\* the frame has the columns `fixed` followed by the payload keys, one row
\* per diagnostic in sequence order, and under each key column the
\* payload's value or NaN
TableShape(fixed) ==
    LET cols == result.columns
        n    == Len(fixed)
    IN  /\ Len(cols) >= n
        /\ SubSeq(cols, 1, n) = fixed
        /\ IsFirstSeenKeys(SubSeq(cols, n + 1, Len(cols)))
        /\ Len(result.rows) = Len(hits)
        /\ \A i \in DOMAIN hits :
              /\ Len(result.rows[i]) = Len(cols)
              /\ result.rows[i][1] = hits[i].recipe
              /\ result.rows[i][2] = hits[i].check
              /\ \A k \in (n + 1)..Len(cols) :
                    result.rows[i][k] =
                        IF cols[k] \in ToSet(Keys(hits[i].info))
                        THEN hits[i].info[PosIn(cols[k], hits[i].info)][2]
                        ELSE "NaN"

(* C5 as claimed: for a non-empty diagnostic sequence the columns of the    *)
(* frame are exactly recipe, check, then one column per distinct payload    *)
(* key in first-seen order, one row per diagnostic, NaN where a payload     *)
(* lacks the key.                                                           *)
C5_ColumnsAsClaimed ==
    (pc = "done" /\ hits # <<>>) => TableShape(<<"recipe", "check">>)

(* C5 amended: the columns are recipe, check, info (the raw payload), then  *)
(* one column per distinct payload key in first-seen order; one row per     *)
(* diagnostic in sequence order; NaN where a payload lacks the key.         *)
C5_ColumnUnion ==
    (pc = "done" /\ hits # <<>>) =>
        /\ TableShape(<<"recipe", "check", "info">>)
        /\ \A i \in DOMAIN hits : result.rows[i][3] = hits[i].info

\* a report of several diagnostics whose payloads differ in their keys, so
\* that a row has a NaN cell and a key is shared by two payloads
C5_Witness ==
    /\ pc = "done"
    /\ Len(hits) >= 2
    /\ \E i \in DOMAIN hits : \E k \in 4..Len(result.columns) :
          result.rows[i][k] = "NaN"
    /\ \E i, j \in DOMAIN hits :
          i < j /\ ToSet(Keys(hits[i].info)) \cap ToSet(Keys(hits[j].info)) # {}

----------------------------------------------------------------------------
\* the position of check c in the registry
RegIndex(c) == CHOOSE i \in DOMAIN Registry : Registry[i] = c

(* C6. Deterministic ordering: the loop iterates the recipes in strictly    *)
(* ascending lexicographic order whatever the order of the input list, one  *)
(* recipe at a time, the checks of a recipe in registration order; so in    *)
(* the diagnostic sequence recipes ascend (the diagnostics of a recipe are  *)
(* contiguous) and the diagnostics of one recipe are in registry order.     *)
C6_Ordering ==
    /\ (pc \notin {"start", "parse"} /\ \A i \in CallIdx("git", <<>>) : calls[i].ok) =>
          /\ Len(order) = Len(recipes)
          /\ ToSet(order) = ToSet(recipes)
          /\ \A i \in 1..(Len(order) - 1) : StrLess(order[i], order[i + 1])
    /\ \A j \in DOMAIN hits : \A i \in 1..(j - 1) :
          \/ StrLess(hits[i].recipe, hits[j].recipe)
          \/ /\ hits[i].recipe = hits[j].recipe
             /\ hits[i].check \in RegSet /\ hits[j].check \in RegSet
             /\ RegIndex(hits[i].check) < RegIndex(hits[j].check)
    /\ \A i \in 1..(Len(calls) - 1) :
          \/ StrLess(calls[i].recipe, calls[i + 1].recipe)
          \/ /\ calls[i].recipe = calls[i + 1].recipe
             /\ calls[i + 1].fn # "from_file"
    /\ \A r \in ToSet(recipes) : \A i, j \in CallIdx("check", r) :
          i < j => RegIndex(calls[i].arg) < RegIndex(calls[j].arg)

\* a finished pass whose input list was not in ascending order and whose
\* diagnostic sequence holds two diagnostics of one recipe and one of another
C6_Witness ==
    /\ pc = "done"
    /\ Len(recipes) >= 2
    /\ StrLess(recipes[2], recipes[1])
    /\ \E i, j, k \in DOMAIN hits :
          /\ i < j /\ j # k
          /\ hits[i].recipe = hits[j].recipe
          /\ hits[k].recipe # hits[i].recipe

----------------------------------------------------------------------------
(* C7. Pass-scoped failures are fatal: when an invoked check raises, or git *)
(* fails while LINT_SKIP is unset, lint() is left by the exception: the     *)
(* failing call is the last call of the pass, no diagnostic is recorded for *)
(* it, and neither a frame nor None is returned.                            *)
C7_PassScopedFatal ==
    \A i \in DOMAIN calls :
        (calls[i].fn \in {"git", "check"} /\ ~calls[i].ok) =>
            /\ i = Len(calls)
            /\ pc = "raised"
            /\ result.kind = "raised"
            /\ calls[i].fn = "check" =>
                  HitIdxOf(calls[i].recipe, calls[i].arg) = {}
            /\ calls[i].fn = "git" => (lint_skip = NoneVal /\ hits = <<>>)

\* a check raised after diagnostics had been collected and while a later
\* recipe was still to be processed
C7_Witness ==
    /\ pc = "raised"
    /\ calls # <<>>
    /\ calls[Len(calls)].fn = "check" /\ ~calls[Len(calls)].ok
    /\ hits # <<>>
    /\ idx < Len(order)

----------------------------------------------------------------------------
\* load_all_meta returned for r on the last platform (hence on both)
ParsedOk(r) ==
    \E i \in CallIdx("load_all_meta", r) : calls[i].arg = "osx" /\ calls[i].ok

\* the variants load_all_meta returned for r, linux first
RECURSIVE VariantsIn(_, _)
VariantsIn(log, r) ==
    IF log = <<>> THEN <<>>
    ELSE (IF Head(log).fn = "load_all_meta" /\ Head(log).recipe = r
             /\ Head(log).ok
          THEN Head(log).out ELSE <<>>) \o VariantsIn(Tail(log), r)

(* C8. Skip scoping: once lint() has stopped without a pass-scoped failure, *)
(* for every recipe r whose metadata loaded on both platforms and every     *)
(* registered check c outside r's effective skip set, c was invoked exactly *)
(* once, with r's handle and all of r's variants, and a diagnostic (r, c,   *)
(* payload) exists exactly when the payload it returned is non-empty.       *)
C8_SkipScoping ==
    (pc \in {"done", "raised"} /\ NoPassScopedFailure) =>
        \A r \in ToSet(recipes) : \A c \in RegSet :
            (ParsedOk(r) /\ ~EffectivelySkipped(c, r)) =>
                /\ Cardinality(CheckIdx(r, c)) = 1
                /\ \A i \in CheckIdx(r, c) :
                      /\ calls[i].handle = Some([path |-> r])
                      /\ calls[i].ms = VariantsIn(calls, r)
                      /\ (HitIdxOf(r, c) # {}) <=> (calls[i].out # <<>>)
                      /\ \A h \in HitIdxOf(r, c) : hits[h].info = calls[i].out

----------------------------------------------------------------------------
(* C9. Skipped checks are inert: whenever the inner loop is at a check of   *)
(* the recipe's skip set, the step the runner takes invokes nothing, emits  *)
(* no diagnostic, does not fail, and moves to the next check.               *)
C9_SkippedInert ==
    [][(/\ pc = "checks"
        /\ fidx <= Len(Registry)
        /\ IsSkipped(Func, skip_for_this_recipe))
       => (/\ pc' = "checks"
           /\ fidx' = fidx + 1
           /\ hits' = hits
           /\ calls' = calls
           /\ result' = result)]_vars

----------------------------------------------------------------------------
(* C10. Metadata loading.                                                   *)

\* the platforms load_all_meta was called with for r, in call order
RECURSIVE LoaderArgs(_, _)
LoaderArgs(log, r) ==
    IF log = <<>> THEN <<>>
    ELSE (IF Head(log).fn = "load_all_meta" /\ Head(log).recipe = r
          THEN <<Head(log).arg>> ELSE <<>>) \o LoaderArgs(Tail(log), r)

(* C10 as claimed: for each recipe of a pass that returned, the loader was  *)
(* called exactly once for linux and exactly once for osx, in that order.   *)
C10_OncePerPlatformAsClaimed ==
    pc = "done" =>
        \A r \in ToSet(recipes) : LoaderArgs(calls, r) = <<"linux", "osx">>

(* C10 amended: the loader is never called for a recipe whose from_file     *)
(* raised; for a recipe whose from_file returned it is called once for      *)
(* linux and then, only if that call returned, once for osx, never more;    *)
(* both calls precede every check of the recipe; in a pass that returned,   *)
(* every recipe whose from_file returned had its linux call, and its osx    *)
(* call exactly when the linux call returned.                               *)
C10_LoaderCalls ==
    \A r \in ToSet(recipes) :
        LET args == LoaderArgs(calls, r)
            failed(plat) == \E i \in CallIdx("load_all_meta", r) :
                               calls[i].arg = plat /\ ~calls[i].ok
        IN  /\ args \in {<<>>, <<"linux">>, <<"linux", "osx">>}
            /\ (\E i \in CallIdx("from_file", r) : ~calls[i].ok) => args = <<>>
            /\ args = <<"linux", "osx">> => ~failed("linux")
            /\ \A i \in CallIdx("check", r) :
                  /\ args = <<"linux", "osx">>
                  /\ \A j \in CallIdx("load_all_meta", r) : j < i /\ calls[j].ok
            /\ (pc = "done" /\ \E i \in CallIdx("from_file", r) : calls[i].ok) =>
                  /\ args # <<>>
                  /\ (args = <<"linux">>) <=> failed("linux")

\* a pass that returned with one recipe whose linux metadata failed to parse
\* (osx never loaded) and one recipe whose checks ran after both loads
C10_Witness ==
    /\ pc = "done"
    /\ \E r \in ToSet(recipes) : LoaderArgs(calls, r) = <<"linux">>
    /\ \E r \in ToSet(recipes) :
          /\ LoaderArgs(calls, r) = <<"linux", "osx">>
          /\ CallIdx("check", r) # {}

====
